---- MODULE Spec2Model ----
(***************************************************************************)
(* redsea: the per-channel orchestration layer, Channel (src/channel.cc).  *)
(*                                                                         *)
(* Time is counted in whole milliseconds.  The collaborators of Channel    *)
(* that live outside channel.cc (BlockStream, CachedPI, RunningAverage,    *)
(* Station, Group) are modelled from their documented contracts.           *)
(***************************************************************************)
EXTENDS Integers, Sequences, FiniteSets, TLC

\* ---------------------------------------------------------------- bounds
MaxTime == 2      \* wall-clock and buffer instants range over 0..MaxTime
MaxGroups == 2    \* groups one Station Interpreter is handed
MaxBufLen == 3    \* bits in one BitBuffer
NumPI == 3        \* distinct identity codes 1..NumPI (0 is the default code)
BitsPerGroup == 2 \* bits the assembler needs for one complete group
PatternGroups == 4 \* groups of one buffer in the error-rate family

\* values the error-rate averager remembers
BlerWindow == 2

Times == 0..MaxTime
PICodes == 1..NumPI
Bits == BOOLEAN

VARIABLES
  options_,             \* [timestamp, bler, output_type]
  block_stream_,        \* the Group Assembler: bits of the group under assembly
  cached_pi_,           \* the Identity Confirmation Tracker
  station_,             \* the current Station Interpreter
  bler_average_,        \* the Error-Rate Averager
  last_group_rx_time_,  \* the watermark
  output_stream_,       \* lines the latest operation wrote to the output sink
  history,              \* one record per group the latest operation processed
  last_obs,             \* last identity code fed to the tracker (0: none)
  last_routed,          \* [has, t]: timestamp of the last routed timestamped group
  last_op               \* the name of the latest operation

vars == <<options_, block_stream_, cached_pi_, station_, bler_average_,
          last_group_rx_time_, output_stream_, history, last_obs,
          last_routed, last_op>>

\* ------------------------------------------------------------------ Group
Group(blocks, has_pi, pi, num_errors, has_time, time) ==
  [blocks |-> blocks, has_pi |-> has_pi, pi |-> pi, num_errors |-> num_errors,
   has_time |-> has_time, time |-> time, has_bler |-> FALSE, bler |-> 0]

isEmpty(group) == group.blocks = <<>>
hasPI(group) == group.has_pi
getPI(group) == group.pi
hasTime(group) == group.has_time
getRxTime(group) == group.time
getNumErrors(group) == group.num_errors
setTime(group, t) == [group EXCEPT !.has_time = TRUE, !.time = t]
setAverageBLER(group, pct) == [group EXCEPT !.has_bler = TRUE, !.bler = pct]

\* ------------------------------------------------------------ BlockStream
\* One block is one bit here: block 1 selects the identity code, block 2
\* tells whether the group had block errors.
AssembledGroup(bits) ==
  Group(bits,
        Len(bits) >= 1,
        IF Len(bits) >= 1 THEN (IF bits[1] THEN 2 ELSE 1) ELSE 0,
        IF Len(bits) >= 2 /\ bits[2] THEN 4 ELSE 0,
        FALSE, 0)

pushBit(bs, bit) == Append(bs, bit)
hasGroupReady(bs) == Len(bs) >= BitsPerGroup
popGroup(bs) == [group |-> AssembledGroup(bs), bs |-> <<>>]
flushCurrentGroup(bs) == [group |-> AssembledGroup(bs), bs |-> <<>>]

\* --------------------------------------------------------------- CachedPI
NoPI == 0
CachedPI_new == [confirmed |-> NoPI, pending |-> NoPI]
CachedPI_get(cp) == cp.confirmed
CachedPI_reset(cp) == CachedPI_new

CachedPI_update(cp, pi) ==
  IF pi = cp.confirmed
    THEN [cp |-> [cp EXCEPT !.pending = NoPI], status |-> "NoChange"]
    ELSE IF pi = cp.pending
      THEN [cp |-> [confirmed |-> pi, pending |-> NoPI], status |-> "ChangeConfirmed"]
      ELSE [cp |-> [cp EXCEPT !.pending = pi], status |-> "SpuriousChange"]

\* --------------------------------------------------------- RunningAverage
RECURSIVE SumSeq(_)
SumSeq(s) == IF s = <<>> THEN 0 ELSE Head(s) + SumSeq(Tail(s))

\* values are error counts 0..4, standing for count / 4
RunningAverage_push(avg, v) ==
  IF Len(avg) < BlerWindow THEN Append(avg, v) ELSE Append(Tail(avg), v)

\* 100 * average, as a whole percentage
RunningAverage_percent(avg) ==
  IF avg = <<>> THEN 0 ELSE (25 * SumSeq(avg)) \div Len(avg)

\* ---------------------------------------------------------------- Station
Station(pi) == [pi |-> pi, n_groups |-> 0]
updateAndPrint(st, group) == [st EXCEPT !.n_groups = @ + 1]

\* ---------------------------------------------------------------- Channel
\* The Channel's members and the bookkeeping, threaded through the
\* operations as one record.
Chan ==
  [bs |-> block_stream_, pi |-> cached_pi_, st |-> station_,
   bler |-> bler_average_, last |-> last_group_rx_time_, out |-> <<>>,
   hist |-> <<>>, obs |-> last_obs, routed |-> last_routed]

\* Channel::processGroup, timestamping: the timestamp the group leaves with
StampGroup(opts, group, now, last) ==
  IF opts.timestamp /\ ~hasTime(group)
    THEN IF now < last THEN setTime(setTime(group, now), last)
                       ELSE setTime(group, now)
    ELSE group

\* StampWatermark, moving the watermark for groups that carry a timestamp too
StampWatermark_Always(opts, group, now, last) ==
  IF opts.timestamp THEN now ELSE last

\* Channel::processGroup, timestamping: the watermark afterwards
StampWatermark(opts, group, now, last) ==
  IF opts.timestamp /\ ~hasTime(group) THEN now ELSE last

\* PushBLER, pushing whether or not the option is set
PushBLER_Always(opts, group, avg) ==
  RunningAverage_push(avg, getNumErrors(group))

\* AnnotateBLER, leaving out the factor 100
AnnotateBLER_NoPercent(opts, group, avg) ==
  IF opts.bler THEN setAverageBLER(group, RunningAverage_percent(avg) \div 100)
               ELSE group

\* Channel::processGroup, block error rate
PushBLER(opts, group, avg) ==
  IF opts.bler THEN RunningAverage_push(avg, getNumErrors(group)) ELSE avg

AnnotateBLER(opts, group, avg) ==
  IF opts.bler THEN setAverageBLER(group, RunningAverage_percent(avg)) ELSE group

\* FeedsTracker, skipping the tracker when the code is the confirmed one
FeedsTracker_OnlyOnChange(group, cp) == hasPI(group) /\ getPI(group) # CachedPI_get(cp)

\* Channel::processGroup, identity: is the group's code fed to the tracker
FeedsTracker(group, cp) == hasPI(group)

\* ReplacesStation, replacing on any result but NoChange
ReplacesStation_AnyChange(status) == status # "NoChange"

\* ReplacesStation, never replacing
ReplacesStation_Never(status) == FALSE

\* Channel::processGroup, identity: does this tracker result replace station_
ReplacesStation(status) == status = "ChangeConfirmed"

\* IdentityStep, giving the existing Station the new code instead of
\* building a fresh one
IdentityStep_InPlace(group, cp, st) ==
  IF FeedsTracker(group, cp)
    THEN LET r == CachedPI_update(cp, getPI(group))
         IN  IF ReplacesStation(r.status)
               THEN [cp |-> r.cp, st |-> [st EXCEPT !.pi = CachedPI_get(r.cp)],
                     status |-> r.status, built |-> TRUE, fed |-> TRUE]
               ELSE [cp |-> r.cp, st |-> st,
                     status |-> r.status, built |-> FALSE, fed |-> TRUE]
    ELSE [cp |-> cp, st |-> st, status |-> "None", built |-> FALSE, fed |-> FALSE]

\* Channel::processGroup, identity: the tracker and station_ after the group
IdentityStep(group, cp, st) ==
  IF FeedsTracker(group, cp)
    THEN LET r == CachedPI_update(cp, getPI(group))
         IN  IF ReplacesStation(r.status)
               THEN [cp |-> r.cp, st |-> Station(CachedPI_get(r.cp)),
                     status |-> r.status, built |-> TRUE, fed |-> TRUE]
               ELSE [cp |-> r.cp, st |-> st,
                     status |-> r.status, built |-> FALSE, fed |-> TRUE]
    ELSE [cp |-> cp, st |-> st, status |-> "None", built |-> FALSE, fed |-> FALSE]

\* One piece of text written to the output stream
Tok(kind, blocks, t) == [kind |-> kind, blocks |-> blocks, t |-> t]

\* HexLine, printing the timestamp whenever the group carries one
HexLine_WhenStamped(opts, group) ==
  <<Tok("hex", group.blocks, 0)>>
  \o (IF hasTime(group)
        THEN <<Tok("space", <<>>, 0), Tok("time", <<>>, getRxTime(group))>>
        ELSE <<>>)
  \o <<Tok("newline", <<>>, 0)>>

\* Channel::processGroup, the raw-hex record of one group
HexLine(opts, group) ==
  <<Tok("hex", group.blocks, 0)>>
  \o (IF opts.timestamp
        THEN <<Tok("space", <<>>, 0), Tok("time", <<>>, getRxTime(group))>>
        ELSE <<>>)
  \o <<Tok("newline", <<>>, 0)>>

\* PrintsHex without the emptiness test
PrintsHex_Always(opts, group) == opts.output_type = "Hex"

\* Channel::processGroup, routing: does the Channel print this group itself
PrintsHex(opts, group) == opts.output_type = "Hex" /\ ~isEmpty(group)

\* HandsToStation, whatever the output mode
HandsToStation_Always(opts, group) == TRUE

\* Channel::processGroup, routing: is the group handed to station_
HandsToStation(opts, group) == opts.output_type # "Hex"

RouteGroup(opts, group, st, out) ==
  IF PrintsHex(opts, group)
    THEN [st |-> st, out |-> Append(out, HexLine(opts, group)), dest |-> "hex"]
    ELSE IF HandsToStation(opts, group)
      THEN [st |-> updateAndPrint(st, group), out |-> out, dest |-> "station"]
      ELSE [st |-> st, out |-> out, dest |-> "none"]

\* Channel::processGroup(group), with `now` the value the clock would return
processGroup(opts, c, group, now, via) ==
  LET g1 == StampGroup(opts, group, now, c.last)
      last1 == StampWatermark(opts, group, now, c.last)
      stamped == opts.timestamp /\ ~hasTime(group)
      avg1 == PushBLER(opts, g1, c.bler)
      g2 == AnnotateBLER(opts, g1, avg1)
      id == IdentityStep(g2, c.pi, c.st)
      rt == RouteGroup(opts, g2, id.st, c.out)
      entry ==
        [via |-> via,
         stamp |-> IF stamped THEN "A" ELSE IF via = "bits" THEN "B" ELSE "none",
         computed |-> IF stamped THEN now ELSE g2.time,
         in_group |-> group, group |-> g2,
         prev |-> c.routed,
         wm_before |-> c.last, wm_after |-> last1,
         has_pi |-> hasPI(g2), fed |-> id.fed, status |-> id.status,
         pi_before |-> CachedPI_get(c.pi), pi_after |-> CachedPI_get(id.cp),
         obs_before |-> c.obs, offset |-> -1, buf_len |-> 0, buf_time |-> 0,
         built |-> id.built, st_before |-> c.st, st_mid |-> id.st, st_after |-> rt.st,
         bler_before |-> c.bler, bler_after |-> avg1,
         dest |-> rt.dest, lines |-> Len(rt.out) - Len(c.out)]
  IN  [c EXCEPT !.last = last1, !.bler = avg1, !.pi = id.cp, !.st = rt.st,
                !.out = rt.out, !.hist = Append(c.hist, entry),
                !.obs = IF hasPI(g2) THEN getPI(g2) ELSE c.obs,
                !.routed = IF hasTime(g2)
                             THEN [has |-> TRUE, t |-> getRxTime(g2)]
                             ELSE c.routed]

\* Channel::processBit(bit)
processBit(opts, c, bit, now) ==
  LET bs1 == pushBit(c.bs, bit)
  IN  IF hasGroupReady(bs1)
        THEN LET p == popGroup(bs1)
             IN  processGroup(opts, [c EXCEPT !.bs = p.bs], p.group, now, "bit")
        ELSE [c EXCEPT !.bs = bs1]

\* BackdateMs, rounding to the nearest millisecond instead of truncating
BackdateMs_Rounded(n) == (n * 16 + 9) \div 19

\* Channel::processBits: whole milliseconds that n bits are back-dated by,
\* static_cast<int>(static_cast<double>(n) / 1187.5 * 1e3)
BackdateMs(n) == (n * 16) \div 19

\* BitsToEnd, counting from the start of the buffer instead of from its end
BitsToEnd_FromStart(n_bits, i_bit) == i_bit

\* Channel::processBits: bits between bit i_bit and the last bit of a buffer
\* of n_bits, buffer.bits.size() - 1 - i_bit
BitsToEnd(n_bits, i_bit) == n_bits - 1 - i_bit

\* ClampGroupTime without the clamp
ClampGroupTime_Off(group_time, last) == group_time

\* Channel::processBits: the monotonicity clamp
ClampGroupTime(group_time, last) ==
  IF group_time < last THEN last ELSE group_time

\* Channel::processBits, from bit i_bit = i - 1 of the buffer on
RECURSIVE processBitsFrom(_, _, _, _)
processBitsFrom(opts, c, buffer, i) ==
  IF i > Len(buffer.bits)
    THEN c
    ELSE LET bs1 == pushBit(c.bs, buffer.bits[i])
         IN  IF hasGroupReady(bs1)
               THEN LET p == popGroup(bs1)
                        computed == buffer.time_received
                                      - BackdateMs(BitsToEnd(Len(buffer.bits), i - 1))
                        group_time == ClampGroupTime(computed, c.last)
                        c1 == processGroup(opts, [c EXCEPT !.bs = p.bs],
                                           setTime(p.group, group_time), 0, "bits")
                        k == Len(c1.hist)
                        c2 == [c1 EXCEPT !.last = group_time,
                                         !.hist[k].wm_after = group_time,
                                         !.hist[k].computed = computed,
                                         !.hist[k].offset = i - 1,
                                         !.hist[k].buf_len = Len(buffer.bits),
                                         !.hist[k].buf_time = buffer.time_received,
                                         !.hist[k].in_group = p.group]
                    IN  processBitsFrom(opts, c2, buffer, i + 1)
               ELSE processBitsFrom(opts, [c EXCEPT !.bs = bs1], buffer, i + 1)

\* processBits, starting the loop at the second bit
processBits_SkipFirst(opts, c, buffer) == processBitsFrom(opts, c, buffer, 2)

\* Channel::processBits(buffer)
processBits(opts, c, buffer) == processBitsFrom(opts, c, buffer, 1)

\* FlushProcesses, never processing the flushed group
FlushProcesses_Never(last_group) == FALSE

\* FlushProcesses, processing the flushed group even when it is empty
FlushProcesses_Always(last_group) == TRUE

\* Channel::flush(): is the flushed group processed
FlushProcesses(last_group) == ~isEmpty(last_group)

flush(opts, c, now) ==
  LET f == flushCurrentGroup(c.bs)
      c1 == [c EXCEPT !.bs = f.bs]
  IN  IF FlushProcesses(f.group)
        THEN processGroup(opts, c1, f.group, now, "flush")
        ELSE c1

\* resetPI, also starting a new Station
resetPI_AndStation(c) ==
  [c EXCEPT !.pi = CachedPI_reset(c.pi), !.obs = NoPI, !.st = Station(NoPI)]

\* Channel::resetPI()
resetPI(c) == [c EXCEPT !.pi = CachedPI_reset(c.pi), !.obs = NoPI]

\* ------------------------------------------------------------ state machine
FullBlocks == [i \in 1..BitsPerGroup |-> TRUE]

\* BitBuffers whose bits are drawn from bitset and instants from times
BitBuffers(bitset, times) ==
  UNION {[bits : [1..n -> bitset], time_received : times] : n \in 0..MaxBufLen}

\* SeededPI with a single update
SeededPI_Once(pi) == CachedPI_update(CachedPI_new, pi).cp

\* Channel::Channel(options, output_stream, pi): the tracker after the two
\* calls cached_pi_.update(pi)
SeededPI(pi) == CachedPI_update(CachedPI_update(CachedPI_new, pi).cp, pi).cp

\* Channel::Channel(options, which_channel, output_stream)
InitDefault ==
  /\ station_ = Station(NoPI)
  /\ cached_pi_ = CachedPI_new
  /\ last_obs = NoPI

\* Channel::Channel(options, output_stream, pi)
InitSeeded ==
  \E pi \in PICodes :
    /\ station_ = Station(pi)
    /\ cached_pi_ = SeededPI(pi)
    /\ last_obs = pi

InitRest ==
  /\ block_stream_ = <<>>
  /\ bler_average_ = <<>>
  /\ last_group_rx_time_ = 0
  /\ output_stream_ = <<>>
  /\ history = <<>>
  /\ last_routed = [has |-> FALSE, t |-> 0]
  /\ last_op = "construct"

\* The Channel after an operation that leaves it as c
Becomes(c, op) ==
  /\ c.st.n_groups <= MaxGroups
  /\ block_stream_' = c.bs
  /\ cached_pi_' = c.pi
  /\ station_' = c.st
  /\ bler_average_' = c.bler
  /\ last_group_rx_time_' = c.last
  /\ output_stream_' = c.out
  /\ history' = c.hist
  /\ last_obs' = c.obs
  /\ last_routed' = c.routed
  /\ last_op' = op
  /\ UNCHANGED options_

ProcessBit(bitset, clock) ==
  \E bit \in bitset, now \in clock :
    Becomes(processBit(options_, Chan, bit, now), "processBit")

ProcessBits(buffers) ==
  \E buffer \in buffers :
    Becomes(processBits(options_, Chan, buffer), "processBits")

ProcessGroup(groups, clock) ==
  \E group \in groups, now \in clock :
    Becomes(processGroup(options_, Chan, group, now, "group"), "processGroup")

Flush(clock) ==
  \E now \in clock :
    Becomes(flush(options_, Chan, now), "flush")

ResetPI ==
  Becomes(resetPI(Chan), "resetPI")

\* ---- timestamps: groups arrive without a timestamp and differ in nothing
UnstampedGroups == {Group(FullBlocks, FALSE, NoPI, 0, FALSE, 0)}

InitTime ==
  /\ options_ \in [timestamp : BOOLEAN, bler : {FALSE}, output_type : {"Hex", "Default"}]
  /\ InitDefault
  /\ InitRest

\* Mode A alone: processGroup called by processBit, by flush and directly
NextClock ==
  \/ ProcessBit({FALSE}, Times)
  \/ ProcessGroup(UnstampedGroups, Times)
  \/ Flush(Times)

SpecClock == InitTime /\ [][NextClock]_vars

\* Mode B alone: a Channel fed buffers only
NextBits == ProcessBits(BitBuffers({FALSE}, Times))

SpecBits == InitTime /\ [][NextBits]_vars

\* Mode A and Mode B interleaved
NextModes ==
  \/ ProcessBit({FALSE}, Times)
  \/ ProcessBits(BitBuffers({FALSE}, Times))
  \/ ProcessGroup(UnstampedGroups, Times)
  \/ Flush(Times)

SpecModes == InitTime /\ [][NextModes]_vars

\* ---- identity: timestamping and error rate off, the clock never read
PIGroups ==
  {Group(FullBlocks, hp, IF hp THEN pi ELSE NoPI, 0, FALSE, 0) :
     hp \in BOOLEAN, pi \in PICodes}

InitPI ==
  /\ options_ \in [timestamp : {FALSE}, bler : {FALSE}, output_type : {"Hex", "Default"}]
  /\ (InitDefault \/ InitSeeded)
  /\ InitRest

NextPI ==
  \/ ProcessBit(Bits, {0})
  \/ ProcessBits(BitBuffers(Bits, {0}))
  \/ ProcessGroup(PIGroups, {0})
  \/ Flush({0})
  \/ ResetPI

SpecPI == InitPI /\ [][NextPI]_vars

\* ---- bit input: single bits and buffers of any bits, nothing else
InitFeed ==
  /\ options_ \in [timestamp : {FALSE}, bler : {FALSE}, output_type : {"Hex", "Default"}]
  /\ InitDefault
  /\ InitRest

NextFeed ==
  \/ ProcessBit(Bits, {0})
  \/ ProcessBits(BitBuffers(Bits, {0}))

SpecFeed == InitFeed /\ [][NextFeed]_vars

\* ---- error rate: buffers of whole groups that differ in their block errors
GroupBits(err) == [k \in 1..BitsPerGroup |-> k = 2 /\ err = 4]

RECURSIVE PatternBits(_)
PatternBits(errs) ==
  IF errs = <<>> THEN <<>> ELSE GroupBits(Head(errs)) \o PatternBits(Tail(errs))

BlerBuffers ==
  {[bits |-> PatternBits(errs), time_received |-> 0] :
     errs \in UNION {[1..n -> {0, 4}] : n \in 0..PatternGroups}}

BlerGroups == {Group(FullBlocks, FALSE, NoPI, ne, FALSE, 0) : ne \in {0, 4}}

InitBler ==
  /\ options_ \in [timestamp : {FALSE}, bler : {TRUE}, output_type : {"Hex", "Default"}]
  /\ InitDefault
  /\ InitRest

NextBler ==
  \/ ProcessBits(BlerBuffers)
  \/ ProcessGroup(BlerGroups, {0})

SpecBler == InitBler /\ [][NextBler]_vars

\* ---- routing and output: every option, empty and non-empty groups
Options == [timestamp : BOOLEAN, bler : BOOLEAN, output_type : {"Hex", "Default"}]

\* Empty and full groups, with and without an identity code, block errors
\* and a timestamp of their own
AnyGroups ==
  {Group(blocks, hp /\ blocks # <<>>, IF hp /\ blocks # <<>> THEN 1 ELSE NoPI, ne,
         ht, IF ht THEN MaxTime ELSE 0) :
     blocks \in {<<>>, FullBlocks}, hp \in BOOLEAN, ne \in {0, 4}, ht \in BOOLEAN}

Init ==
  /\ options_ \in Options
  /\ InitDefault
  /\ InitRest

Next ==
  \/ ProcessBit({FALSE}, {0, MaxTime})
  \/ ProcessBits(BitBuffers({FALSE}, {0, MaxTime}))
  \/ ProcessGroup(AnyGroups, {0, MaxTime})
  \/ Flush({0, MaxTime})
  \/ ResetPI

Spec == Init /\ [][Next]_vars

\* ------------------------------------------------------------------ claims
Entries == {history[k] : k \in 1..Len(history)}

\* The group of entry e left with a timestamp that is not earlier than the
\* timestamp of the group routed before it
NotEarlier(e) == (e.prev.has /\ hasTime(e.group)) => e.prev.t <= getRxTime(e.group)

\* C1: with timestamping enabled, over any sequence of processGroup calls and
\* any clock readings, the timestamps of the routed groups never decrease.
C1_Monotonic ==
  options_.timestamp => \A e \in Entries : NotEarlier(e)

\* C2: in processBits a group whose back-dated instant is earlier than the
\* instant of the previously emitted group is emitted with exactly that
\* previous instant, and over buffers alone the emitted instants never decrease.
C2_BufferClamp ==
  \A e \in Entries :
    e.prev.has =>
      /\ e.computed < e.prev.t => getRxTime(e.group) = e.prev.t
      /\ e.prev.t <= getRxTime(e.group)

C2_Witness ==
  \E e \in Entries :
    /\ e.via = "bits"
    /\ e.prev.has
    /\ e.computed < e.prev.t
    /\ getRxTime(e.group) = e.prev.t

\* C3: after every group the Channel stamped, by Mode A or by Mode B, the
\* watermark equals the timestamp the group was emitted with, and the
\* emitted timestamps never decrease under any interleaving of the two modes.
C3_WatermarkIsEmitted ==
  \A e \in Entries :
    e.stamp \in {"A", "B"} =>
      /\ e.wm_after = getRxTime(e.group)
      /\ NotEarlier(e)

\* Bits between the bit that completed the group of entry e and the end of
\* its buffer
BitsAfter(e) == e.buf_len - 1 - e.offset

\* C10 as stated: the group completing at offset i of N bits captured at T is
\* assigned exactly T - (N - 1 - i) / 1187.5 s (1 / 1187.5 s = 16 / 19 ms),
\* provided that instant is not earlier than the watermark.
C10_Exact ==
  \A e \in Entries :
    (e.via = "bits" /\ 19 * (e.buf_time - e.wm_before) >= 16 * BitsAfter(e)) =>
      19 * (e.buf_time - getRxTime(e.group)) = 16 * BitsAfter(e)

\* C10, amended: the group is assigned T minus a whole number of
\* milliseconds, the back-dating (N - 1 - i) / 1187.5 s truncated: the instant
\* is never earlier than the exact one and at most 1 ms later, provided the
\* truncated instant is not earlier than the watermark.
C10_Truncated ==
  \A e \in Entries :
    (e.via = "bits" /\ e.computed >= e.wm_before) =>
      /\ 19 * (e.buf_time - getRxTime(e.group)) <= 16 * BitsAfter(e)
      /\ 16 * BitsAfter(e) <= 19 * (e.buf_time - getRxTime(e.group)) + 19
      /\ (BitsAfter(e) < 19 => 16 * BitsAfter(e) < 19 * (e.buf_time - getRxTime(e.group)) + 19)

C10_Witness ==
  \E e \in Entries :
    /\ e.via = "bits"
    /\ BitsAfter(e) >= 2
    /\ e.computed >= e.wm_before
    /\ getRxTime(e.group) = e.buf_time - 1

\* The group of entry e made the tracker adopt a new confirmed code
Adopted(e) == e.pi_after # e.pi_before

\* C4: a code distinct from the confirmed one becomes the confirmed code if
\* and only if it is the code of the previous observation too (observed twice
\* with no other value in between); the tracker reports ChangeConfirmed then,
\* NoChange for the confirmed code and SpuriousChange otherwise, which leaves
\* the confirmed code as it was.
C4_AdoptedIffRepeated ==
  \A e \in Entries :
    e.has_pi =>
      /\ Adopted(e) <=> (getPI(e.group) # e.pi_before /\ e.obs_before = getPI(e.group))
      /\ e.status = "ChangeConfirmed" <=> Adopted(e)
      /\ e.status = "NoChange" <=> getPI(e.group) = e.pi_before
      /\ e.status \in {"ChangeConfirmed", "NoChange", "SpuriousChange"}
      /\ e.pi_after = (IF Adopted(e) THEN getPI(e.group) ELSE e.pi_before)

\* A confirmed, B observed and then B again: ChangeConfirmed, now B
C4_Witness ==
  \E e \in Entries :
    /\ e.has_pi
    /\ e.pi_before \in PICodes
    /\ getPI(e.group) # e.pi_before
    /\ e.obs_before = getPI(e.group)
    /\ e.status = "ChangeConfirmed"
    /\ cached_pi_.confirmed = getPI(e.group)

\* C5: processGroup replaces the Station Interpreter if and only if the group
\* carries an identity code and the tracker reports ChangeConfirmed for it;
\* otherwise the interpreter the group is routed with is the one that was
\* there, with all its state.
C5_ReplacedIffConfirmed ==
  \A e \in Entries :
    /\ e.built <=> (e.has_pi /\ e.status = "ChangeConfirmed")
    /\ e.built => e.st_mid = Station(getPI(e.group))
    /\ ~e.built => e.st_mid = e.st_before
    /\ ~e.has_pi => (e.status = "None" /\ e.pi_after = e.pi_before)

C5_Witness ==
  \E e \in Entries :
    /\ e.built
    /\ e.st_before.n_groups > 0
    /\ e.st_before.pi # getPI(e.group)
    /\ e.st_mid = Station(getPI(e.group))

\* C6 as stated: an empty group entering processGroup, in either output mode,
\* is neither written as a raw-hex line nor handed to the Station Interpreter.
C6_EmptyDropped ==
  \A e \in Entries :
    isEmpty(e.group) => (e.lines = 0 /\ e.dest # "station" /\ e.st_after = e.st_mid)

\* C6, amended: an empty group is never written as a raw-hex line and flush
\* never passes one to processGroup; in raw-hex mode it reaches no output
\* path, in interpreted mode processGroup hands it to the Station Interpreter.
C6_EmptyNotPrinted ==
  \A e \in Entries :
    isEmpty(e.group) =>
      /\ e.lines = 0
      /\ e.via # "flush"
      /\ options_.output_type = "Hex" => (e.dest = "none" /\ e.st_after = e.st_mid)
      /\ options_.output_type # "Hex" =>
           (e.dest = "station" /\ e.st_after = updateAndPrint(e.st_mid, e.group))

C6_Witness ==
  \E e \in Entries :
    /\ isEmpty(e.group)
    /\ options_.output_type # "Hex"
    /\ e.dest = "station"
    /\ e.st_after.n_groups = e.st_mid.n_groups + 1

\* C7: flush with a partially assembled group pending processes exactly one
\* group, the pending one, through processGroup; flush with nothing pending
\* processes no group and writes nothing.
C7_FlushOnce ==
  [][last_op' = "flush" =>
       IF block_stream_ # <<>>
         THEN /\ Len(history') = 1
              /\ history'[1].via = "flush"
              /\ history'[1].in_group = AssembledGroup(block_stream_)
              /\ history'[1].dest = (IF options_.output_type = "Hex" THEN "hex" ELSE "station")
              /\ hasTime(history'[1].group) = options_.timestamp
              /\ history'[1].group.has_bler = options_.bler
              /\ history'[1].fed = hasPI(history'[1].in_group)
              /\ block_stream_' = <<>>
         ELSE /\ history' = <<>>
              /\ output_stream_' = <<>>]_vars

C7_Witness ==
  /\ last_op = "flush"
  /\ Len(history) = 1
  /\ history[1].via = "flush"
  /\ ~isEmpty(history[1].group)
  /\ Len(history[1].group.blocks) < BitsPerGroup

\* C8: when flush gets an empty group from the assembler it writes nothing
\* and leaves the tracker, the interpreter, the averager and the watermark
\* as they were.
C8_EmptyFlushFrame ==
  [][(last_op' = "flush" /\ isEmpty(flushCurrentGroup(block_stream_).group)) =>
       /\ output_stream_' = <<>>
       /\ history' = <<>>
       /\ UNCHANGED <<cached_pi_, station_, bler_average_, last_group_rx_time_>>]_vars

C8_Witness ==
  /\ last_op = "flush"
  /\ history = <<>>
  /\ cached_pi_.pending # NoPI
  /\ bler_average_ # <<>>
  /\ last_group_rx_time_ > 0

\* Non-empty groups among the first k the latest operation processed
RECURSIVE NonEmptyUpTo(_)
NonEmptyUpTo(k) ==
  IF k = 0 THEN 0
  ELSE NonEmptyUpTo(k - 1) + (IF isEmpty(history[k].group) THEN 0 ELSE 1)

\* C9: in raw-hex mode every non-empty processed group produces exactly one
\* record, an empty one none: the hex blocks, then a space and the group's
\* timestamp if and only if timestamping is enabled, then a newline.
C9_HexRecord ==
  options_.output_type = "Hex" =>
    /\ Len(output_stream_) = NonEmptyUpTo(Len(history))
    /\ \A k \in 1..Len(history) :
         LET e == history[k]
             line == output_stream_[NonEmptyUpTo(k)]
         IN  /\ e.lines = (IF isEmpty(e.group) THEN 0 ELSE 1)
             /\ ~isEmpty(e.group) =>
                  /\ line[1] = Tok("hex", e.group.blocks, 0)
                  /\ line[Len(line)] = Tok("newline", <<>>, 0)
                  /\ options_.timestamp =>
                       /\ Len(line) = 4
                       /\ line[2] = Tok("space", <<>>, 0)
                       /\ line[3] = Tok("time", <<>>, getRxTime(e.group))
                       /\ hasTime(e.group)
                  /\ ~options_.timestamp => Len(line) = 2

\* timestamping disabled, a group stamped by processBits: blocks and newline
C9_Witness ==
  /\ options_.output_type = "Hex"
  /\ ~options_.timestamp
  /\ \E k \in 1..Len(history) :
       /\ history[k].via = "bits"
       /\ hasTime(history[k].group)
       /\ ~isEmpty(history[k].group)
       /\ Len(output_stream_[NonEmptyUpTo(k)]) = 2

\* C11: a group that completes on the last bit of its buffer (offset N - 1,
\* in particular N = 1 and offset 0) gets the buffer's capture instant T as
\* its computed instant, and is emitted with T unless the watermark is later.
C11_LastBitNoBackdate ==
  \A e \in Entries :
    (e.via = "bits" /\ e.offset = e.buf_len - 1) =>
      /\ e.computed = e.buf_time
      /\ e.buf_time >= e.wm_before => getRxTime(e.group) = e.buf_time

C11_Witness ==
  \E e \in Entries :
    /\ e.via = "bits"
    /\ e.buf_len = 1
    /\ e.offset = 0
    /\ e.buf_time > 0
    /\ e.computed = e.buf_time
    /\ getRxTime(e.group) = e.buf_time

\* C12: with the bler option set every processed group pushes exactly one
\* value, its error count over 4, into the averager and is annotated with
\* 100 times the average read after that push, a value within 0..100; with
\* the option clear the averager is never modified and no group is annotated.
C12_BlerPushAndAnnotate ==
  /\ \A e \in Entries :
       IF options_.bler
         THEN /\ e.bler_after = RunningAverage_push(e.bler_before, getNumErrors(e.in_group))
              /\ e.bler_after[Len(e.bler_after)] = getNumErrors(e.in_group)
              /\ Len(e.bler_after) \in {Len(e.bler_before) + 1, BlerWindow}
              /\ e.group.has_bler
              /\ e.group.bler = RunningAverage_percent(e.bler_after)
              /\ e.group.bler \in 0..100
         ELSE /\ e.bler_after = e.bler_before
              /\ ~e.group.has_bler
  /\ \A k \in 2..Len(history) : history[k].bler_before = history[k - 1].bler_after
  /\ history # <<>> => bler_average_ = history[Len(history)].bler_after
  /\ ~options_.bler => bler_average_ = <<>>

C12_Witness ==
  /\ options_.bler
  /\ Len(history) = 1
  /\ history[1].bler_before = <<4, 4>>
  /\ history[1].bler_after = <<4, 0>>
  /\ history[1].group.bler = 50
  /\ bler_average_ = <<4, 0>>

\* Distance of the annotation of entry e from 50 percent
FromHalf(e) == IF e.group.bler >= 50 THEN e.group.bler - 50 ELSE 50 - e.group.bler

\* Entries k - 3 .. k of the history carry the error counts 0, 4, 0, 4
Alternating(k) ==
  /\ getNumErrors(history[k - 3].in_group) = 0
  /\ getNumErrors(history[k - 2].in_group) = 4
  /\ getNumErrors(history[k - 1].in_group) = 0
  /\ getNumErrors(history[k].in_group) = 4

Seeded == last_op = "construct" /\ station_.pi \in PICodes

\* C14: a Channel constructed with a code pi has pi confirmed and its Station
\* seeded with pi, which is the tracker a default Channel has after two
\* successive observations of pi; its first group yields NoChange and no
\* new Station when it carries pi, and a spurious change and no new Station
\* when it carries another code, pi staying confirmed.
C14_SeededIsConfirmed ==
  /\ [](Seeded => /\ CachedPI_get(cached_pi_) = station_.pi
                  /\ cached_pi_.pending = NoPI
                  /\ station_ = Station(station_.pi))
  /\ [](\A e \in Entries :
          (e = history[Len(history)] /\ e.status = "ChangeConfirmed"
             /\ e.pi_before = NoPI /\ last_op # "resetPI")
            => cached_pi_ = SeededPI(getPI(e.group)))
  /\ [][(Seeded /\ history' # <<>> /\ history'[1].has_pi) =>
          LET e == history'[1]
          IN  IF getPI(e.group) = station_.pi
                THEN /\ e.status = "NoChange"
                     /\ ~e.built
                     /\ e.st_mid = station_
                     /\ (Len(history') = 1 => cached_pi_' = cached_pi_)
                ELSE /\ e.status = "SpuriousChange"
                     /\ ~e.built
                     /\ e.pi_after = station_.pi]_vars

C14_Witness ==
  /\ options_.output_type = "Default"
  /\ last_op = "processGroup"
  /\ Len(history) = 1
  /\ history[1].st_before.pi \in PICodes
  /\ history[1].st_before.n_groups = 0
  /\ getPI(history[1].group) = history[1].st_before.pi
  /\ history[1].status = "NoChange"

\* C15: when a group confirms a change of code, the fresh Station is in place
\* before the group is routed: in interpreted mode the confirming group is
\* handed to the new Station and is the first and only group it has seen; in
\* raw-hex mode the new Station has seen no group.
C15_FreshStationFirst ==
  \A k \in 1..Len(history) :
    LET e == history[k]
    IN  e.status = "ChangeConfirmed" =>
          /\ e.built
          /\ e.st_mid = Station(getPI(e.group))
          /\ e.st_mid.n_groups = 0
          /\ IF options_.output_type = "Hex"
               THEN e.st_after = e.st_mid
               ELSE /\ e.dest = "station"
                    /\ e.st_after = updateAndPrint(e.st_mid, e.group)
                    /\ e.st_after.n_groups = 1
          /\ IF k = Len(history) THEN station_ = e.st_after
                                 ELSE history[k + 1].st_before = e.st_after

C15_Witness ==
  \E e \in Entries :
    /\ options_.output_type = "Default"
    /\ e.status = "ChangeConfirmed"
    /\ e.st_before.n_groups > 0
    /\ e.st_before.pi \in PICodes
    /\ e.st_after.n_groups = 1
    /\ e.st_after.pi = getPI(e.group)

\* C16: every processed group goes to at most one destination, fixed by the
\* output mode alone. In raw-hex mode no group is handed to the Station,
\* though the Station is still replaced on a confirmed change, and at most
\* one line is written; in interpreted mode the Channel writes no line and
\* hands the group to the Station exactly once.
C16_OneDestination ==
  /\ \A e \in Entries :
       IF options_.output_type = "Hex"
         THEN /\ e.dest \in {"hex", "none"}
              /\ e.dest = "hex" <=> ~isEmpty(e.group)
              /\ e.lines = (IF e.dest = "hex" THEN 1 ELSE 0)
              /\ e.st_after = e.st_mid
              /\ e.built <=> e.status = "ChangeConfirmed"
         ELSE /\ e.dest = "station"
              /\ e.lines = 0
              /\ e.st_after = updateAndPrint(e.st_mid, e.group)
              /\ e.st_after.n_groups = e.st_mid.n_groups + 1
  /\ options_.output_type = "Hex" => station_.n_groups = 0
  /\ options_.output_type # "Hex" => output_stream_ = <<>>

C16_Witness ==
  \E e \in Entries :
    /\ options_.output_type = "Hex"
    /\ e.built
    /\ e.st_mid # e.st_before
    /\ e.dest = "hex"
    /\ e.lines = 1
    /\ e.st_after = e.st_mid

\* C17: resetPI changes the tracker and nothing else: Station, watermark,
\* averager, assembler and output are as before, and the tracker holds no
\* code. The first group with a code after a reset, the previously confirmed
\* code included, is a spurious change and builds no Station; the same code
\* in the group after that is confirmed.
C17_ResetOnlyTracker ==
  [][/\ last_op' = "resetPI" =>
          /\ UNCHANGED <<options_, block_stream_, station_, bler_average_,
                         last_group_rx_time_, last_routed>>
          /\ output_stream_' = <<>>
          /\ history' = <<>>
          /\ cached_pi_' = CachedPI_new
          /\ CachedPI_get(cached_pi_') = NoPI
     /\ (last_op = "resetPI" /\ history' # <<>> /\ history'[1].has_pi) =>
          /\ history'[1].status = "SpuriousChange"
          /\ ~history'[1].built
          /\ history'[1].st_mid = station_
          /\ history'[1].pi_after = NoPI
          /\ (Len(history') >= 2 /\ history'[2].has_pi) =>
               IF getPI(history'[2].group) = getPI(history'[1].group)
                 THEN history'[2].status = "ChangeConfirmed"
                 ELSE history'[2].status = "SpuriousChange"]_vars

C17_Witness ==
  /\ Len(history) = 2
  /\ history[1].obs_before = NoPI
  /\ history[1].st_before.pi \in PICodes
  /\ history[1].st_before.n_groups > 0
  /\ getPI(history[1].group) = history[1].st_before.pi
  /\ history[1].status = "SpuriousChange"
  /\ history[2].status = "ChangeConfirmed"
  /\ getPI(history[2].group) = history[1].st_before.pi

\* C18: processGroup keeps the timestamp of a group that already carries one
\* and leaves the watermark as it was, whatever the clock says; with
\* timestamping off it gives a group without a timestamp none and leaves the
\* watermark as it was. processBits gives every group it completes a
\* timestamp and sets the watermark to it, with timestamping on or off.
C18_StampedGroupsKept ==
  \A e \in Entries :
    IF e.via = "bits"
      THEN /\ hasTime(e.group)
           /\ e.stamp = "B"
           /\ e.wm_after = getRxTime(e.group)
           /\ e.wm_after >= e.wm_before
      ELSE /\ hasTime(e.in_group) =>
                /\ hasTime(e.group)
                /\ getRxTime(e.group) = getRxTime(e.in_group)
                /\ e.stamp = "none"
                /\ e.wm_after = e.wm_before
           /\ (~options_.timestamp /\ ~hasTime(e.in_group)) =>
                /\ ~hasTime(e.group)
                /\ e.stamp = "none"
                /\ e.wm_after = e.wm_before

C18_Witness ==
  \E e \in Entries :
    /\ options_.timestamp
    /\ e.via = "group"
    /\ hasTime(e.in_group)
    /\ getRxTime(e.in_group) = MaxTime
    /\ getRxTime(e.group) = MaxTime
    /\ e.wm_before < MaxTime
    /\ e.wm_after = e.wm_before

\* C19: while the tracker holds a confirmed code, the code the Station was
\* built with is that code; every group that confirms a change leaves the two
\* equal, and the only operation after which they stop being equal is resetPI.
C19_StationMatchesTracker ==
  /\ [](CachedPI_get(cached_pi_) # NoPI => station_.pi = CachedPI_get(cached_pi_))
  /\ []((history # <<>> /\ history[Len(history)].status = "ChangeConfirmed")
          => /\ station_.pi = CachedPI_get(cached_pi_)
             /\ station_.pi = getPI(history[Len(history)].group))
  /\ [][(station_.pi = CachedPI_get(cached_pi_)
           /\ station_.pi' # CachedPI_get(cached_pi_'))
          => last_op' = "resetPI"]_vars

C19_Witness ==
  /\ history # <<>>
  /\ history[Len(history)].status = "ChangeConfirmed"
  /\ history[Len(history)].pi_before = NoPI
  /\ history[Len(history)].st_before.pi \in PICodes
  /\ history[Len(history)].st_before.pi # station_.pi
  /\ station_.pi = CachedPI_get(cached_pi_)

\* The bits of the groups of the entries of h, in the order of the entries
RECURSIVE FlatBlocks(_)
FlatBlocks(h) ==
  IF h = <<>> THEN <<>> ELSE Head(h).in_group.blocks \o FlatBlocks(Tail(h))

\* The offsets, from bit i of bits on, of the bits after which an assembler
\* holding bs reports a group ready
RECURSIVE ReadyOffsets(_, _, _)
ReadyOffsets(bs, bits, i) ==
  IF i > Len(bits)
    THEN <<>>
    ELSE IF hasGroupReady(pushBit(bs, bits[i]))
      THEN <<i - 1>> \o ReadyOffsets(<<>>, bits, i + 1)
      ELSE ReadyOffsets(pushBit(bs, bits[i]), bits, i + 1)

\* The entries of h were processed one after the other: each starts from
\* the watermark, Station, tracker and averager the one before left
InSequence(h) ==
  \A k \in 2..Len(h) :
    /\ h[k].wm_before = h[k - 1].wm_after
    /\ h[k].st_before = h[k - 1].st_after
    /\ h[k].pi_before = h[k - 1].pi_after
    /\ h[k].bler_before = h[k - 1].bler_after

\* C20: from every state and for every input, the bits of processBit and
\* processBits reach the assembler once each and in input order: the bits of
\* the processed groups followed by the bits left in the assembler are the
\* bits it held followed by the input. A bit
\* completes at most one group, the groups are processed one after the other
\* in the order of the bits that completed them, and there are as many of
\* them as bits after which the assembler reported a group ready.
C20_BitsInOrder ==
  /\ \A buffer \in BitBuffers(Bits, {0}) :
       LET r == processBits(options_, Chan, buffer)
           ready == ReadyOffsets(block_stream_, buffer.bits, 1)
       IN  /\ FlatBlocks(r.hist) \o r.bs = block_stream_ \o buffer.bits
           /\ Len(r.hist) = Len(ready)
           /\ \A k \in 1..Len(ready) :
                /\ r.hist[k].via = "bits"
                /\ r.hist[k].offset = ready[k]
           /\ \A k \in 2..Len(ready) : ready[k - 1] < ready[k]
           /\ InSequence(r.hist)
  /\ \A bit \in Bits :
       LET r == processBit(options_, Chan, bit, 0)
       IN  /\ FlatBlocks(r.hist) \o r.bs = block_stream_ \o <<bit>>
           /\ Len(r.hist)
                = (IF hasGroupReady(pushBit(block_stream_, bit)) THEN 1 ELSE 0)
  /\ last_op \in {"processBit", "processBits"} =>
       /\ InSequence(history)
       /\ \A k \in 1..Len(history) : Len(history[k].in_group.blocks) = BitsPerGroup
       /\ ~hasGroupReady(block_stream_)

C20_Witness ==
  /\ last_op = "processBits"
  /\ Len(history) = 2
  /\ history[1].offset = 0
  /\ history[2].offset = BitsPerGroup
  /\ history[1].in_group.blocks # history[2].in_group.blocks
  /\ history[2].wm_before = history[1].wm_after
  /\ history[2].st_before = history[1].st_after
  /\ block_stream_ = <<>>

====
